---- MODULE Spec2Model ----
(***************************************************************************)
(* Model of the background document pipeline of the legal-document         *)
(* timeline backend: app/workers/document_processor.py and the services    *)
(* and API handlers it works with.                                         *)
(*                                                                         *)
(* Python strings are modelled in two ways.                                *)
(*  - A document text is a sequence of runs [c |-> char, n |-> count]      *)
(*    (run-length form), so that texts of 25,000 characters are cut with   *)
(*    the real chunk size of 10,000.  Positions are 0-based as in Python.  *)
(*  - A short string that is compared or sorted (an event date) is a       *)
(*    sequence of one-character strings, ordered by code point.            *)
(*  - An exception/error text is [base |-> text, len |-> n]: the first n   *)
(*    characters of the text named base, so that slicing s[:k] is          *)
(*    computed on the length.                                              *)
(***************************************************************************)
EXTENDS Integers, Sequences, FiniteSets, TLC

(***************************************************************************)
(* Small arithmetic helpers.                                               *)
(***************************************************************************)
Min(a, b) == IF a <= b THEN a ELSE b

Max(a, b) == IF a >= b THEN a ELSE b

(***************************************************************************)
(* Run-length texts.                                                       *)
(***************************************************************************)
RECURSIVE SumLen(_, _)
\* number of characters in the first k runs of text t
SumLen(t, k) == IF k = 0 THEN 0 ELSE SumLen(t, k - 1) + t[k].n

\* len(text)
TextLen(t) == SumLen(t, Len(t))

\* str.isspace() for one character (the characters str.strip() removes)
IsSpace(c) == c \in {" ", "\n", "\t"}

\* text.rfind(ch, lo, hi): highest index p with lo <= p < hi and text[p] = ch, else -1
rfind(t, ch, lo, hi) ==
    LET top == Min(hi, TextLen(t))
        hits == { Min(SumLen(t, k), top) - 1 : k \in
                    { j \in 1..Len(t) :
                        /\ t[j].c = ch
                        /\ Min(SumLen(t, j), top) - 1 >= Max(SumLen(t, j - 1), lo) } }
    IN  IF hits = {} THEN -1 ELSE CHOOSE p \in hits : \A q \in hits : q <= p

\* text[p], for 0 <= p < len(text)
CharAt(t, p) ==
    t[CHOOSE k \in 1..Len(t) : SumLen(t, k - 1) <= p /\ p < SumLen(t, k)].c

\* text[s:e]
Slice(t, s, e) ==
    LET clipped == [k \in 1..Len(t) |->
                      [c |-> t[k].c,
                       n |-> Max(0, Min(SumLen(t, k), e) - Max(SumLen(t, k - 1), s))]]
    IN  SelectSeq(clipped, LAMBDA r : r.n > 0)

RECURSIVE lstrip(_)
lstrip(t) == IF t # <<>> /\ IsSpace(Head(t).c) THEN lstrip(Tail(t)) ELSE t

RECURSIVE rstrip(_)
rstrip(t) ==
    IF t # <<>> /\ IsSpace(t[Len(t)].c) THEN rstrip(SubSeq(t, 1, Len(t) - 1)) ELSE t

\* a strip that leaves the whitespace at the end
strip_Leading(t) == lstrip(t)

\* str.strip()
strip(t) == rstrip(lstrip(t))

(***************************************************************************)
(* app/services/pdf_service.py : chunk_text                                *)
(***************************************************************************)
\* the search for the space reaching one character further
CutEnd_WiderSearch(text, chunk_size, start) ==
    LET end == start + chunk_size
        last_space == rfind(text, " ", start, end + 2)
    IN  IF end < TextLen(text) /\ last_space > start THEN last_space + 1 ELSE end

\* the end of the slice that starts at start (lines 46-51)
CutEnd(text, chunk_size, start) ==
    LET end == start + chunk_size
        last_space == rfind(text, " ", start, end + 1)
    IN  IF end < TextLen(text) /\ last_space > start THEN last_space + 1 ELSE end

\* a loop that forgets to move start
NextStart_Stays(text, chunk_size, start) == start

\* start = end (line 53)
NextStart(text, chunk_size, start) == CutEnd(text, chunk_size, start)

RECURSIVE ChunkLoop(_, _, _)
\* the while loop (lines 45-53): the stripped slices, empty ones included
ChunkLoop(text, chunk_size, start) ==
    IF start < TextLen(text)
    THEN LET end == CutEnd(text, chunk_size, start)
         IN  <<strip(Slice(text, start, end))>> \o ChunkLoop(text, chunk_size, end)
    ELSE <<>>

RECURSIVE ChunkCuts(_, _, _)
\* the values of (start, end) at line 52, one pair for each pass of the loop
ChunkCuts(text, chunk_size, start) ==
    IF start < TextLen(text)
    THEN LET end == CutEnd(text, chunk_size, start)
         IN  <<[start |-> start, end |-> end]>> \o ChunkCuts(text, chunk_size, end)
    ELSE <<>>

\* how many times the body of the while loop runs in a call
LoopPasses(text, chunk_size) ==
    IF text = <<>> \/ chunk_size <= 0 THEN 0 ELSE Len(ChunkCuts(text, chunk_size, 0))

\* the chunks returned without the filter of line 54
chunk_text_KeepEmpty(text, chunk_size) ==
    IF text = <<>> \/ chunk_size <= 0 THEN <<>> ELSE ChunkLoop(text, chunk_size, 0)

\* a chunk_size that is not positive taken as 1 instead of returning at line 42
chunk_text_ClampSize(text, chunk_size) ==
    SelectSeq(ChunkLoop(text, Max(chunk_size, 1), 0), LAMBDA c : c # <<>>)

chunk_text(text, chunk_size) ==
    IF text = <<>> \/ chunk_size <= 0
    THEN <<>>
    ELSE SelectSeq(ChunkLoop(text, chunk_size, 0), LAMBDA c : c # <<>>)

(***************************************************************************)
(* Strings that are ordered: Python compares str by code point.            *)
(***************************************************************************)
\* ord(c) for the characters that occur in the dates of the model
ord(c) ==
    CASE c = "-" -> 45
      [] c = "0" -> 48 [] c = "1" -> 49 [] c = "2" -> 50 [] c = "3" -> 51
      [] c = "4" -> 52 [] c = "5" -> 53 [] c = "6" -> 54 [] c = "7" -> 55
      [] c = "8" -> 56 [] c = "9" -> 57
      [] c = "k" -> 107 [] c = "n" -> 110 [] c = "o" -> 111
      [] c = "u" -> 117 [] c = "w" -> 119

\* the characters of the date strings of the model
Chars(s) ==
    CASE s = "" -> <<>>
      [] s = "unknown" -> <<"u", "n", "k", "n", "o", "w", "n">>
      [] s = "2023-01-15" -> <<"2", "0", "2", "3", "-", "0", "1", "-", "1", "5">>
      [] s = "2024-00-01" -> <<"2", "0", "2", "4", "-", "0", "0", "-", "0", "1">>
      [] s = "2024-01-01" -> <<"2", "0", "2", "4", "-", "0", "1", "-", "0", "1">>
      [] s = "2024-02-01" -> <<"2", "0", "2", "4", "-", "0", "2", "-", "0", "1">>
      [] s = "2024-03-01" -> <<"2", "0", "2", "4", "-", "0", "3", "-", "0", "1">>
      [] s = "2024-1-5" -> <<"2", "0", "2", "4", "-", "1", "-", "5">>

RECURSIVE SeqLess(_, _)
\* a < b for two character sequences (lexicographic, a proper prefix is smaller)
SeqLess(a, b) ==
    IF b = <<>> THEN FALSE
    ELSE IF a = <<>> THEN TRUE
    ELSE IF ord(Head(a)) # ord(Head(b)) THEN ord(Head(a)) < ord(Head(b))
    ELSE SeqLess(Tail(a), Tail(b))

\* a < b on str
StrLess(a, b) == SeqLess(Chars(a), Chars(b))

\* a <= b on str
StrLeq(a, b) == ~StrLess(b, a)

(***************************************************************************)
(* Error texts: [base, len] is the first len characters of base.           *)
(***************************************************************************)
None == [none |-> TRUE]

Text(base, len) == [base |-> base, len |-> len]

\* s[:k]
Prefix(s, k) == Text(s.base, Min(s.len, k))

(***************************************************************************)
(* app/models/timeline.py : Event; app/services/timeline_service.py        *)
(***************************************************************************)
Event(date, description, involved_parties, significance) ==
    [date |-> date, description |-> description,
     involved_parties |-> involved_parties, significance |-> significance]

RECURSIVE Flatten(_)
\* merged.extend(events) for each list, in order (lines 20-22)
Flatten(all_events) ==
    IF all_events = <<>> THEN <<>> ELSE Head(all_events) \o Flatten(Tail(all_events))

\* the comparison of a descending sort
KeyBefore_Reversed(b, a) == StrLess(a.date, b.date)

\* a comparison that also puts b before an a with the same key
KeyBefore_OrEqual(b, a) == StrLeq(b.date, a.date)

\* the comparison list.sort makes between two keys: does b go before a
KeyBefore(b, a) == StrLess(b.date, a.date)

RECURSIVE InsertSorted(_, _)
\* e put into the sorted list s behind every element that is not after it
InsertSorted(s, e) ==
    IF s = <<>> THEN <<e>>
    ELSE IF KeyBefore(e, Head(s)) THEN <<e>> \o s
    ELSE <<Head(s)>> \o InsertSorted(Tail(s), e)

RECURSIVE SortByDate(_, _)
\* list.sort(key=lambda e: e.date): a stable sort (line 23)
SortByDate(done, todo) ==
    IF todo = <<>> THEN done ELSE SortByDate(InsertSorted(done, Head(todo)), Tail(todo))

RECURSIVE Deduplicated(_)
\* the list with every event that occurred before left out
Deduplicated(events) ==
    IF events = <<>> THEN <<>>
    ELSE LET front == Deduplicated(SubSeq(events, 1, Len(events) - 1))
             last == events[Len(events)]
         IN  IF \E i \in 1..Len(front) : front[i] = last THEN front ELSE Append(front, last)

\* the merged list returned without the sort of line 23
merge_and_sort_events_NoSort(all_events) == Flatten(all_events)

\* a merge that keeps one of each group of equal events
merge_and_sort_events_Dedup(all_events) == Deduplicated(SortByDate(<<>>, Flatten(all_events)))

merge_and_sort_events(all_events) == SortByDate(<<>>, Flatten(all_events))

(***************************************************************************)
(* app/services/llm_service.py                                             *)
(*                                                                         *)
(* A decoded JSON value is [t |-> "null"], [t |-> "str", v |-> s],         *)
(* [t |-> "num", v |-> n], [t |-> "bool", v |-> b],                        *)
(* [t |-> "list", v |-> <<...>>] or [t |-> "dict", v |-> [key |-> value]]; *)
(* [t |-> "invalid"] stands for a text json.loads rejects.  A raw backend  *)
(* response is [fence, json]: how the text is wrapped in a markdown code   *)
(* block, and what the text inside decodes to.                             *)
(***************************************************************************)
JNull == [t |-> "null"]

JInvalid == [t |-> "invalid"]

JStr(s) == [t |-> "str", v |-> s]

JNum(n) == [t |-> "num", v |-> n]

JBool(b) == [t |-> "bool", v |-> b]

JList(xs) == [t |-> "list", v |-> xs]

JDict(f) == [t |-> "dict", v |-> f]

\* bool(value)
Truthy(j) ==
    CASE j.t = "null" -> FALSE
      [] j.t = "str" -> j.v # ""
      [] j.t = "num" -> j.v # 0
      [] j.t = "bool" -> j.v
      [] j.t = "list" -> j.v # <<>>
      [] j.t = "dict" -> DOMAIN j.v # {}

\* str(value), for the values of the model
PyStr(j) ==
    CASE j.t = "str" -> j.v
      [] j.t = "null" -> "None"
      [] j.t = "num" -> (CASE j.v = 0 -> "0" [] j.v = 7 -> "7")
      [] j.t = "bool" -> (IF j.v THEN "True" ELSE "False")
      [] j.t = "list" -> (CASE j.v = <<>> -> "[]"
                            [] j.v = <<JStr("p"), JNum(7), JNull>> -> "['p', 7, None]")
      [] j.t = "dict" -> (CASE DOMAIN j.v = {} -> "{}")

\* item.get(key)
DictGet(item, key) == IF key \in DOMAIN item.v THEN item.v[key] ELSE JNull

\* the first value taken whatever it is
PyOr_NoDefault(a, b) == a

\* a or b
PyOr(a, b) == IF Truthy(a) THEN a ELSE b

\* the Event built from one dict of the array (lines 50-63)
EventFromItem(item) ==
    LET parties == DictGet(item, "involved_parties")
    IN  Event(PyStr(PyOr(DictGet(item, "date"), JStr("unknown"))),
              PyStr(PyOr(DictGet(item, "description"), JStr(""))),
              IF parties.t = "list"
              THEN [i \in 1..Len(parties.v) |-> PyStr(parties.v[i])]
              ELSE <<>>,
              PyStr(PyOr(DictGet(item, "significance"), JStr(""))))

\* the text handed to json.loads once the code block is stripped (lines 34-41):
\* with an opening ```json fence and no closing fence re.search finds nothing
\* and the text becomes None, which json.loads rejects with a TypeError
Unfenced(raw) == IF raw.fence = "json_unclosed" THEN JInvalid ELSE raw.json

_parse_events_from_response(raw) ==
    LET data == Unfenced(raw)
    IN  IF data.t = "invalid" THEN <<>>
        ELSE IF data.t # "list" THEN <<>>
        ELSE LET dicts == SelectSeq(data.v, LAMBDA item : item.t = "dict")
             IN  [i \in 1..Len(dicts) |-> EventFromItem(dicts[i])]

_mock_events(text_chunk) ==
    << Event("2023-01-15", "Sample event extracted from document (mock).",
             <<"Party A", "Party B">>, "Mock significance for testing.") >>

\* (settings.groq_api_key or "").strip() is empty (lines 92-94)
NoApiKey(groq_api_key) == groq_api_key = <<>> \/ strip(groq_api_key) = <<>>

\* the parsed events handed on as they are, an empty list included
EventsOrMock_NoFallback(events, text_chunk) == events

\* what a backend call that returned content gives (lines 109-112)
EventsOrMock(events, text_chunk) ==
    IF events # <<>> THEN events ELSE _mock_events(text_chunk)

\* LLMService.extract_events_from_chunk; backend is what the Groq call does:
\* [kind |-> "import_error"], [kind |-> "api_error"] or
\* [kind |-> "content", raw |-> the response]
extract_events_from_chunk(text_chunk, groq_api_key, backend) ==
    IF NoApiKey(groq_api_key) THEN _mock_events(text_chunk)
    ELSE IF backend.kind = "content"
    THEN EventsOrMock(_parse_events_from_response(backend.raw), text_chunk)
    ELSE _mock_events(text_chunk)

(***************************************************************************)
(* Bounds and inputs of the model.                                         *)
(***************************************************************************)
\* documents that can be uploaded
MaxDocs == 1

\* invocations of process_document, numbered in the order they are made
MaxRuns == 2

DocIds == 1..MaxDocs

Runs == 1..MaxRuns

Run(c, n) == <<[c |-> c, n |-> n]>>

\* 25,000 characters without whitespace
TextPlain == Run("a", 25000)

\* 25,000 characters: words of 5,000, 6,999 and 12,999 letters
TextWords == Run("a", 5000) \o Run(" ", 1) \o Run("a", 6999) \o Run(" ", 1) \o Run("a", 12999)

\* a short text with whitespace around it
TextShort == Run(" ", 1) \o Run("a", 12) \o Run("\n", 1)

\* whitespace only
TextBlank == Run(" ", 3) \o Run("\n", 1)

\* what text extraction can yield for an uploaded PDF
Texts == {<<>>, TextBlank, TextShort, TextPlain, TextWords}

\* values of settings.groq_api_key (None is read as the empty string)
ApiKeys == {<<>>, Run("g", 20)}

\* the event a stub extractor returns for the chunk with index i (from 0)
StubDate(i) ==
    CASE i = 0 -> "2024-00-01" [] i = 1 -> "2024-01-01"
      [] i = 2 -> "2024-02-01" [] OTHER -> "2024-03-01"

StubResponse(i) ==
    [fence |-> "none",
     json |-> JList(<< JDict([date |-> JStr(StubDate(i)), description |-> JStr("stub"),
                              involved_parties |-> JList(<<>>),
                              significance |-> JStr("")]) >>)]

\* a response json.loads cannot decode
GarbageResponse == [fence |-> "none", json |-> JInvalid]

\* a response of two events: one without a date, one whose date is not
\* zero-padded
UndatedResponse ==
    [fence |-> "none",
     json |-> JList(<< JDict([description |-> JStr("undated")]),
                       JDict([date |-> JStr("2024-1-5"), description |-> JStr("short date")]) >>)]

\* what the backend can do on the call for the chunk with index i
BackendOutcomes(i) ==
    { [kind |-> "import_error"], [kind |-> "api_error"],
      [kind |-> "content", raw |-> GarbageResponse],
      [kind |-> "content", raw |-> StubResponse(i)] }
    \cup (IF i = 0 THEN { [kind |-> "content", raw |-> UndatedResponse] } ELSE {})

\* the backend gave no usable result: it raised, or its output has no events
BackendUnusable(backend) ==
    backend.kind # "content" \/ _parse_events_from_response(backend.raw) = <<>>

\* the error a write to the store can raise: its text has 600 characters
StoreErrors == { [type |-> "PyMongoError", msg |-> Text("write error <details>", 600)] }

\* the error PdfReader raises on a file that is no PDF
PdfError == [type |-> "PdfReadError", msg |-> Text("EOF marker not found", 20)]

\* length of the texts chunk_text is called on directly
MaxTextLen == 5

\* number of events merge_and_sort_events is called on directly
MaxEvents == 4

\* the texts of at most MaxTextLen characters over a letter, a space and a
\* newline, one run per character
SmallTexts ==
    UNION { [1..n -> {[c |-> ch, n |-> 1] : ch \in {"a", " ", "\n"}}] : n \in 0..MaxTextLen }

\* values of chunk_size: negative, zero, and up to longer than every text
ChunkSizes == -1..(MaxTextLen + 1)

\* dates of the events that are sorted: the sentinel, a date that is not
\* zero-padded and a zero-padded one
SortDates == {"unknown", "2024-1-5", "2024-02-01"}

\* the description that tells the k-th event of an input from the others
Tag(k) == <<"e1", "e2", "e3", "e4", "e5", "e6">>[k]

\* the per-chunk event lists of up to MaxEvents events in all: the events
\* e1, e2, ... in this order, spread over three lists (some may be empty)
EventListInputs ==
    UNION { { [c \in 1..3 |->
                 LET mine == SelectSeq([k \in 1..n |-> k], LAMBDA k : list_of[k] = c)
                 IN  [i \in 1..Len(mine) |-> Event(date_of[mine[i]], Tag(mine[i]), <<>>, "")]] :
              date_of \in [1..n -> SortDates],
              list_of \in { f \in [1..n -> 1..3] : \A i \in 1..n, j \in 1..n : i < j => f[i] <= f[j] } } :
            n \in 0..MaxEvents }

\* the dict with the keys of choice that are not Absent
Absent == [t |-> "absent"]

DictOf(choice) ==
    JDict([k \in { key \in DOMAIN choice : choice[key] # Absent } |-> choice[k]])

\* the objects a backend can put in its array: each key absent or given one
\* of some values, well-formed or not
ResponseItems ==
    { DictOf([date |-> d, description |-> x, involved_parties |-> p, significance |-> g]) :
        d \in {Absent, JNull, JStr(""), JStr("2024-1-5"), JNum(0), JNum(7), JBool(FALSE),
                JList(<<>>), JDict(<<>>)},
        x \in {Absent, JNull, JStr("signed"), JNum(7)},
        p \in {Absent, JNull, JStr("p"), JList(<<>>), JList(<<JStr("p"), JNum(7), JNull>>)},
        g \in {Absent, JStr(""), JStr("why"), JBool(TRUE)} }

\* texts that decode to something that is no array, or do not decode
NonArrayJson == { JInvalid, JNull, JStr("no events"), JNum(7), JDict(<<>>),
                  JDict([date |-> JStr("2024-1-5")]) }

\* the raw responses _parse_events_from_response is called on directly
ParseInputs ==
    { [fence |-> "none", json |-> JList(<<item>>)] : item \in ResponseItems }
    \cup { [fence |-> "json", json |-> JList(<<JStr("noise"), item, JNum(7), JNull>>)] :
             item \in ResponseItems }
    \cup { [fence |-> f, json |-> j] :
             f \in {"none", "json", "json_unclosed"},
             j \in NonArrayJson \cup {JList(<<>>), JList(<<JNum(7)>>), StubResponse(0).json} }

\* per-chunk event lists in which events occur more than once: up to
\* MaxEvents events that differ at most in their date, spread over three lists
RepeatedEventInputs ==
    UNION { { [c \in 1..3 |->
                 LET mine == SelectSeq([k \in 1..n |-> k], LAMBDA k : list_of[k] = c)
                 IN  [i \in 1..Len(mine) |-> Event(date_of[mine[i]], "same", <<>>, "")]] :
              date_of \in [1..n -> {"unknown", "2024-1-5"}],
              list_of \in { f \in [1..n -> 1..3] : \A i \in 1..n, j \in 1..n : i < j => f[i] <= f[j] } } :
            n \in 2..MaxEvents }

(***************************************************************************)
(* app/models/document.py, app/workers/document_processor.py               *)
(***************************************************************************)
PENDING == "pending"

PROCESSING == "processing"

COMPLETED == "completed"

FAILED == "failed"

\* chunk_size of the call at line 56
CHUNK_SIZE == 10000

\* the slice of line 85
MAX_ERROR_LEN == 500

\* Document(status=PENDING), error_message defaulting to None
NewDocument(file_path) ==
    [status |-> PENDING, error_message |-> None, file_path |-> file_path]

\* the object Document.get returns: the stored fields and, with
\* use_state_management, the saved state save_changes compares with
Loaded(stored) ==
    [status |-> stored.status, error_message |-> stored.error_message,
     file_path |-> stored.file_path,
     saved |-> [status |-> stored.status, error_message |-> stored.error_message]]

\* a save that leaves the stored status as it is
Saved_StatusNotWritten(stored, d) ==
    [stored EXCEPT
       !.error_message =
           IF d.error_message # d.saved.error_message THEN d.error_message ELSE @]

\* save_changes: the fields that differ from the saved state are $set
Saved(stored, d) ==
    [stored EXCEPT
       !.status = IF d.status # d.saved.status THEN d.status ELSE @,
       !.error_message =
           IF d.error_message # d.saved.error_message THEN d.error_message ELSE @]

\* the object after a save: its saved state is its current state
AfterSave(d) ==
    [d EXCEPT !.saved = [status |-> d.status, error_message |-> d.error_message]]

\* the guard with Failed documents let through again
ShouldSkip_RetryFailed(stored) == stored.status \in {PROCESSING, COMPLETED}

\* line 41: the run goes on only for a Pending document
ShouldSkip(stored) == stored.status # PENDING

\* the guards without the check for a missing document: doc.status is read
\* on None and the AttributeError leaves the function
AfterGet_NoneUnchecked(stored) ==
    IF stored = None THEN "raised"
    ELSE IF ShouldSkip(stored) THEN "returned"
    ELSE "save_processing"

\* where the run stands after Document.get and the two guards (lines 38-43)
AfterGet(stored) ==
    IF stored = None THEN "returned"
    ELSE IF ShouldSkip(stored) THEN "returned"
    ELSE "save_processing"

\* the check with whitespace-only text let through
NoTextExtracted_EmptyOnly(raw_text) == raw_text = <<>>

\* line 53
NoTextExtracted(raw_text) == raw_text = <<>> \/ strip(raw_text) = <<>>

\* str(e) stored whole
Truncated_Whole(msg) == msg

\* str(e)[:500]
Truncated(msg) == Prefix(msg, MAX_ERROR_LEN)

\* the two except clauses (lines 77-85), before the save
OnException(d, e) ==
    IF e.type = "FileNotFoundError"
    THEN [d EXCEPT !.status = FAILED,
                   !.error_message = Text("PDF file not found", 18)]
    ELSE [d EXCEPT !.status = FAILED, !.error_message = Truncated(e.msg)]

\* lines 72-73
OnSuccess(d) == [d EXCEPT !.status = COMPLETED, !.error_message = None]

\* the new list put in front of the others
Appended_InFront(lists, events) == <<events>> \o lists

\* all_event_lists.append(events) (line 63)
Appended(lists, events) == Append(lists, events)

\* an insert that stores nothing
Inserted_Dropped(tls, t) == tls

\* timeline.insert(): the collection with the new Timeline
Inserted(tls, t) == Append(tls, t)

\* the Timeline documents of a document, in insertion order
TimelinesOf(tls, id) == SelectSeq(tls, LAMBDA t : t.document_id = id)

(***************************************************************************)
(* State.                                                                  *)
(***************************************************************************)
VARIABLES
    groq_api_key,     \* settings.groq_api_key (cached for the process)
    documents,        \* the documents collection: id -> Document or None
    uploads,          \* what text extraction yields for the file of a document
    timelines,        \* the timelines collection, in insertion order
    pc,               \* where each invocation of process_document stands
    document_id,      \* its argument
    doc,              \* its local Document object
    chunks,           \* its chunks
    all_event_lists,  \* its list of per-chunk event lists
    timeline,         \* its local Timeline object (None until inserted)
    exc,              \* the exception its try block caught (None if none)
    backend_failed,   \* whether a backend call of the run gave no usable result
    qpc,              \* where the timeline query stands
    qdoc,             \* the Document the query loaded
    resp,             \* the last response of the timeline query
    call              \* the last direct call of a service function (None if none)

vars ==
    <<groq_api_key, documents, uploads, timelines, pc, document_id, doc, chunks,
      all_event_lists, timeline, exc, backend_failed, qpc, qdoc, resp, call>>

store == <<documents, uploads, timelines>>

locals == <<doc, chunks, all_event_lists, timeline, exc, backend_failed>>

query == <<qpc, qdoc, resp>>

Init ==
    /\ groq_api_key \in ApiKeys
    /\ documents = [d \in DocIds |-> None]
    /\ uploads = [d \in DocIds |-> <<>>]
    /\ timelines = <<>>
    /\ pc = [w \in Runs |-> "idle"]
    /\ document_id = [w \in Runs |-> 0]
    /\ doc = [w \in Runs |-> None]
    /\ chunks = [w \in Runs |-> <<>>]
    /\ all_event_lists = [w \in Runs |-> <<>>]
    /\ timeline = [w \in Runs |-> None]
    /\ exc = [w \in Runs |-> None]
    /\ backend_failed = [w \in Runs |-> FALSE]
    /\ qpc = "idle"
    /\ qdoc = None
    /\ resp = None
    /\ call = None

(***************************************************************************)
(* app/api/documents.py : upload_document (lines 70-81).  The document is  *)
(* inserted Pending and process_document is scheduled for its id.          *)
(***************************************************************************)
Upload(w, id, text) ==
    /\ pc[w] = "idle"
    /\ \A v \in Runs : v < w => pc[v] # "idle"
    /\ documents[id] = None
    /\ \A other \in DocIds : other < id => documents[other] # None
    /\ documents' = [documents EXCEPT ![id] = NewDocument(id)]
    /\ uploads' = [uploads EXCEPT ![id] = text]
    /\ pc' = [pc EXCEPT ![w] = "get"]
    /\ document_id' = [document_id EXCEPT ![w] = id]
    /\ UNCHANGED <<call, groq_api_key, timelines, locals, query>>

(***************************************************************************)
(* Another trigger of process_document(id): a duplicate or retried         *)
(* delivery, for an id that may or may not name a document.                *)
(***************************************************************************)
Trigger(w, id) ==
    /\ pc[w] = "idle"
    /\ \A v \in Runs : v < w => pc[v] # "idle"
    /\ pc' = [pc EXCEPT ![w] = "get"]
    /\ document_id' = [document_id EXCEPT ![w] = id]
    /\ UNCHANGED <<call, groq_api_key, store, locals, query>>

(***************************************************************************)
(* process_document, one action per await.                                 *)
(***************************************************************************)
\* lines 37-46: load, the two guards, doc.status = PROCESSING
Get(w) ==
    /\ pc[w] = "get"
    /\ LET stored == documents[document_id[w]]
       IN  /\ pc' = [pc EXCEPT ![w] = AfterGet(stored)]
           /\ IF AfterGet(stored) = "save_processing"
              THEN doc' = [doc EXCEPT ![w] = [Loaded(stored) EXCEPT !.status = PROCESSING]]
              ELSE UNCHANGED doc
    /\ UNCHANGED <<call, groq_api_key, store, document_id, chunks, all_event_lists,
                   timeline, exc, backend_failed, query>>

\* line 47: the save outside the try block; its error leaves the function
SaveProcessing(w) ==
    /\ pc[w] = "save_processing"
    /\ \/ /\ documents' = [documents EXCEPT ![document_id[w]] = Saved(@, doc[w])]
          /\ doc' = [doc EXCEPT ![w] = AfterSave(@)]
          /\ pc' = [pc EXCEPT ![w] = "extract_text"]
       \/ /\ pc' = [pc EXCEPT ![w] = "raised"]
          /\ UNCHANGED <<documents, doc>>
    /\ UNCHANGED <<call, groq_api_key, uploads, timelines, document_id, chunks,
                   all_event_lists, timeline, exc, backend_failed, query>>

\* the run caught e: the except clause sets the fields, the save is next
Caught(w, e) ==
    /\ exc' = [exc EXCEPT ![w] = e]
    /\ doc' = [doc EXCEPT ![w] = OnException(@, e)]
    /\ pc' = [pc EXCEPT ![w] = "save_failed"]

\* lines 52-57: extract_text_from_pdf in a thread, the empty check, chunk_text
ExtractText(w) ==
    /\ pc[w] = "extract_text"
    /\ \/ /\ Caught(w, [type |-> "FileNotFoundError",
                        msg |-> Text("PDF not found: <path>", 21)])
          /\ UNCHANGED chunks
       \/ /\ Caught(w, PdfError)
          /\ UNCHANGED chunks
       \/ LET raw_text == uploads[doc[w].file_path]
          IN  IF NoTextExtracted(raw_text)
              THEN /\ Caught(w, [type |-> "ValueError",
                                 msg |-> Text("No text extracted from PDF", 26)])
                   /\ UNCHANGED chunks
              ELSE /\ chunks' = [chunks EXCEPT ![w] = chunk_text(raw_text, CHUNK_SIZE)]
                   /\ pc' = [pc EXCEPT ![w] =
                               IF chunks'[w] = <<>> THEN "insert" ELSE "extract_events"]
                   /\ UNCHANGED <<doc, exc>>
    /\ UNCHANGED <<call, groq_api_key, store, document_id, all_event_lists, timeline,
                   backend_failed, query>>

\* lines 61-63: one pass of the loop, the call for the next chunk
ExtractEvents(w) ==
    /\ pc[w] = "extract_events"
    /\ LET i == Len(all_event_lists[w])
       IN  \E backend \in BackendOutcomes(i) :
             LET events == extract_events_from_chunk(chunks[w][i + 1], groq_api_key, backend)
             IN  /\ all_event_lists' = [all_event_lists EXCEPT ![w] = Appended(@, events)]
                 /\ backend_failed' = [backend_failed EXCEPT ![w] =
                       @ \/ (~NoApiKey(groq_api_key) /\ BackendUnusable(backend))]
                 /\ pc' = [pc EXCEPT ![w] =
                             IF i + 1 = Len(chunks[w]) THEN "insert" ELSE "extract_events"]
    /\ UNCHANGED <<call, groq_api_key, store, document_id, doc, chunks, timeline, exc, query>>

\* lines 66-73: merge, timeline.insert(), then the Completed fields are set
InsertTimeline(w) ==
    /\ pc[w] = "insert"
    /\ \/ LET merged == merge_and_sort_events(all_event_lists[w])
              t == [document_id |-> document_id[w], events |-> merged]
          IN  /\ timelines' = Inserted(timelines, t)
              /\ timeline' = [timeline EXCEPT ![w] = t]
              /\ doc' = [doc EXCEPT ![w] = OnSuccess(@)]
              /\ pc' = [pc EXCEPT ![w] = "save_completed"]
              /\ UNCHANGED exc
       \/ \E e \in StoreErrors :
            /\ Caught(w, e)
            /\ UNCHANGED <<timelines, timeline>>
    /\ UNCHANGED <<call, groq_api_key, documents, uploads, document_id, chunks,
                   all_event_lists, backend_failed, query>>

\* line 74: the save of the Completed status
SaveCompleted(w) ==
    /\ pc[w] = "save_completed"
    /\ \/ /\ documents' = [documents EXCEPT ![document_id[w]] = Saved(@, doc[w])]
          /\ doc' = [doc EXCEPT ![w] = AfterSave(@)]
          /\ pc' = [pc EXCEPT ![w] = "returned"]
          /\ UNCHANGED exc
       \/ \E e \in StoreErrors :
            /\ Caught(w, e)
            /\ UNCHANGED documents
    /\ UNCHANGED <<call, groq_api_key, uploads, timelines, document_id, chunks,
                   all_event_lists, timeline, backend_failed, query>>

\* lines 81 and 86: the save inside the except clause; its error leaves the function
SaveFailed(w) ==
    /\ pc[w] = "save_failed"
    /\ \/ /\ documents' = [documents EXCEPT ![document_id[w]] = Saved(@, doc[w])]
          /\ doc' = [doc EXCEPT ![w] = AfterSave(@)]
          /\ pc' = [pc EXCEPT ![w] = "returned"]
       \/ /\ pc' = [pc EXCEPT ![w] = "raised"]
          /\ UNCHANGED <<documents, doc>>
    /\ UNCHANGED <<call, groq_api_key, uploads, timelines, document_id, chunks,
                   all_event_lists, timeline, exc, backend_failed, query>>

(***************************************************************************)
(* app/api/timeline.py : get_document_timeline, by the document's owner.   *)
(***************************************************************************)
\* lines 34-39: Document.get and the 404 for a missing document
QueryGet(id) ==
    /\ qpc = "idle"
    /\ IF documents[id] = None
       THEN /\ resp' = [code |-> 404, detail |-> "Document not found"]
            /\ UNCHANGED <<qpc, qdoc>>
       ELSE /\ qdoc' = [id |-> id, status |-> documents[id].status]
            /\ qpc' = "find"
            /\ resp' = None
    /\ UNCHANGED <<call, groq_api_key, store, pc, document_id, locals>>

\* what the handler answers once the Timeline lookups are done (lines 53-66)
TimelineResponse(d, found) ==
    IF found = <<>>
    THEN IF d.status = COMPLETED
         THEN [code |-> 200, document_id |-> d.id, events |-> <<>>, persisted |-> FALSE]
         ELSE [code |-> 404, detail |-> "Timeline not ready yet or document still processing"]
    ELSE [code |-> 200, document_id |-> d.id, events |-> found[1].events, persisted |-> TRUE]

\* lines 47-66: Timeline.find_one for the document, then the answer
QueryFind ==
    /\ qpc = "find"
    /\ resp' = TimelineResponse(qdoc, TimelinesOf(timelines, qdoc.id))
    /\ qpc' = "idle"
    /\ qdoc' = None
    /\ UNCHANGED <<call, groq_api_key, store, pc, document_id, locals>>

Next ==
    \/ \E w \in Runs, id \in DocIds, text \in Texts : Upload(w, id, text)
    \/ \E w \in Runs, id \in DocIds : Trigger(w, id)
    \/ \E w \in Runs : Get(w)
    \/ \E w \in Runs : SaveProcessing(w)
    \/ \E w \in Runs : ExtractText(w)
    \/ \E w \in Runs : ExtractEvents(w)
    \/ \E w \in Runs : InsertTimeline(w)
    \/ \E w \in Runs : SaveCompleted(w)
    \/ \E w \in Runs : SaveFailed(w)
    \/ \E id \in DocIds : QueryGet(id)
    \/ QueryFind

Spec == Init /\ [][Next]_vars

(***************************************************************************)
(* app/api/documents.py : get_document_status and app/api/timeline.py :    *)
(* get_document_timeline as functions of what the store holds and of the   *)
(* authenticated user.                                                     *)
(***************************************************************************)
\* the 404 both handlers raise (documents.py lines 136-139 and 142-145,
\* timeline.py lines 36-39 and 42-45)
DocumentNotFound == [code |-> 404, detail |-> "Document not found"]

\* an ownership check that lets every user through
IsOwner_Anyone(stored, current_user) == TRUE

\* doc.user_id.ref.id == current_user.id
IsOwner(stored, current_user) == stored.user_id = current_user

\* documents.py lines 134-152
get_document_status(stored, current_user) ==
    IF stored = None THEN DocumentNotFound
    ELSE IF ~IsOwner(stored, current_user) THEN DocumentNotFound
    ELSE [code |-> 200, id |-> stored.id, status |-> stored.status,
          error_message |-> stored.error_message]

\* timeline.py lines 34-66; found is what the Timeline lookups give
get_document_timeline(stored, found, current_user) ==
    IF stored = None THEN DocumentNotFound
    ELSE IF ~IsOwner(stored, current_user) THEN DocumentNotFound
    ELSE TimelineResponse([id |-> stored.id, status |-> stored.status], found)

\* the users that upload and ask
Users == {"alice", "bob"}

\* what Document.get can return to a handler: nothing, or a document of one
\* of the users in any status
StoredDocuments ==
    {None} \cup
    { [id |-> 1, user_id |-> u, status |-> st, error_message |-> m] :
        u \in Users, st \in {PENDING, PROCESSING, COMPLETED, FAILED},
        m \in {None, Text("No text extracted from PDF", 26)} }

\* what the Timeline lookups can return: nothing, or the document's Timeline
FoundTimelines ==
    { <<>>, <<[document_id |-> 1, events |-> _mock_events(<<>>)]>>,
      <<[document_id |-> 1, events |-> <<>>]>> }

CallStatusQuery(stored, current_user) ==
    /\ call = None
    /\ call' = [fn |-> "get_document_status", stored |-> stored, found |-> <<>>,
                current_user |-> current_user,
                response |-> get_document_status(stored, current_user)]
    /\ UNCHANGED <<groq_api_key, store, pc, document_id, locals, query>>

CallTimelineQuery(stored, found, current_user) ==
    /\ call = None
    /\ call' = [fn |-> "get_document_timeline", stored |-> stored, found |-> found,
                current_user |-> current_user,
                response |-> get_document_timeline(stored, found, current_user)]
    /\ UNCHANGED <<groq_api_key, store, pc, document_id, locals, query>>

(***************************************************************************)
(* The service functions called directly, on inputs drawn from bounded     *)
(* sets: call records the arguments and what the call returned.  Each      *)
(* behaviour makes one call.                                               *)
(***************************************************************************)
CallChunkText(text, chunk_size) ==
    /\ call = None
    /\ call' = [fn |-> "chunk_text", text |-> text, chunk_size |-> chunk_size,
                result |-> chunk_text(text, chunk_size),
                passes |-> LoopPasses(text, chunk_size)]
    /\ UNCHANGED <<groq_api_key, store, pc, document_id, locals, query>>

(***************************************************************************)
(* chunk_text run pass by pass: call holds its local variables and where   *)
(* it stands ("while": at the loop test of line 45).                       *)
(***************************************************************************)
\* lines 41-44: the guard, chunks = [], start = 0
BeginChunkText(text, chunk_size) ==
    /\ call = None
    /\ call' = [fn |-> "chunk_text (loop)", text |-> text, chunk_size |-> chunk_size,
                at |-> IF text = <<>> \/ chunk_size <= 0 THEN "returned" ELSE "while",
                start |-> 0, chunks |-> <<>>, passes |-> 0, result |-> <<>>]
    /\ UNCHANGED <<groq_api_key, store, pc, document_id, locals, query>>

\* lines 45-53: one pass of the while loop
ChunkTextPass ==
    /\ call # None
    /\ call.fn = "chunk_text (loop)"
    /\ call.at = "while"
    /\ call.start < TextLen(call.text)
    /\ \E end \in {CutEnd(call.text, call.chunk_size, call.start)} :
       \E chunk \in {strip(Slice(call.text, call.start, end))} :
          call' = [call EXCEPT
                     !.chunks = Append(@, chunk),
                     !.start = NextStart(call.text, call.chunk_size, call.start),
                     !.passes = @ + 1]
    /\ UNCHANGED <<groq_api_key, store, pc, document_id, locals, query>>

\* lines 45 and 54: the loop test fails, the chunks that are not empty are returned
ChunkTextReturn ==
    /\ call # None
    /\ call.fn = "chunk_text (loop)"
    /\ call.at = "while"
    /\ call.start >= TextLen(call.text)
    /\ call' = [call EXCEPT !.at = "returned",
                            !.result = SelectSeq(call.chunks, LAMBDA c : c # <<>>)]
    /\ UNCHANGED <<groq_api_key, store, pc, document_id, locals, query>>

CallMergeAndSort(all_events) ==
    /\ call = None
    /\ call' = [fn |-> "merge_and_sort_events", all_events |-> all_events,
                result |-> merge_and_sort_events(all_events)]
    /\ UNCHANGED <<groq_api_key, store, pc, document_id, locals, query>>

CallParse(raw) ==
    /\ call = None
    /\ call' = [fn |-> "_parse_events_from_response", raw |-> raw,
                result |-> _parse_events_from_response(raw)]
    /\ UNCHANGED <<groq_api_key, store, pc, document_id, locals, query>>

CallsNext ==
    \/ \E text \in SmallTexts, chunk_size \in ChunkSizes : CallChunkText(text, chunk_size)
    \/ \E all_events \in EventListInputs \cup RepeatedEventInputs :
          CallMergeAndSort(all_events)
    \/ \E raw \in ParseInputs : CallParse(raw)
    \/ \E stored \in StoredDocuments, current_user \in Users :
          CallStatusQuery(stored, current_user)
    \/ \E stored \in StoredDocuments, found \in FoundTimelines, current_user \in Users :
          CallTimelineQuery(stored, found, current_user)

SpecCalls == Init /\ [][CallsNext]_vars

\* chunk_text run one pass of its loop at a time
LoopNext ==
    \/ \E text \in SmallTexts, chunk_size \in ChunkSizes : BeginChunkText(text, chunk_size)
    \/ ChunkTextPass
    \/ ChunkTextReturn

\* a call of chunk_text that has begun runs on: it is synchronous code
SpecCallsFair == Init /\ [][LoopNext]_vars /\ WF_vars(ChunkTextPass \/ ChunkTextReturn)

(***************************************************************************)
(* Properties.                                                             *)
(***************************************************************************)
\* the run w loaded a Pending document and went past the guards
Entered(w) == doc[w] # None

\* the run w is over: it returned or an exception left it
Ended(w) == pc[w] \in {"returned", "raised"}

\* C1: an invocation that finds the stored status other than Pending returns
\* at once: the step that loads the document changes no Document and no
\* Timeline and ends the run, which never takes another step.
C1_SkipIsNoOp ==
    [][\A w \in Runs :
         /\ ( /\ pc[w] = "get"
              /\ pc'[w] # "get"
              /\ documents[document_id[w]] # None
              /\ documents[document_id[w]].status # PENDING )
            => ( /\ pc'[w] = "returned"
                 /\ doc'[w] = None
                 /\ documents' = documents
                 /\ timelines' = timelines )
         /\ (pc[w] = "returned" => pc'[w] = "returned")]_vars

\* C1 witness: a second invocation found the document Completed and returned
\* without loading it, the one Timeline still in place
C1_Witness ==
    \E v \in Runs, w \in Runs :
        /\ v < w
        /\ document_id[v] = document_id[w]
        /\ Entered(v) /\ pc[v] = "returned"
        /\ ~Entered(w) /\ pc[w] = "returned"
        /\ documents[document_id[w]].status = COMPLETED
        /\ Len(timelines) = 1

\* C2: of the invocations for one document at most one goes past the guard,
\* and at most one Timeline is ever created for the document.
C2_SingleEntrant ==
    \A id \in DocIds :
        /\ Cardinality({w \in Runs : document_id[w] = id /\ Entered(w)}) <= 1
        /\ Len(TimelinesOf(timelines, id)) <= 1

\* C3: the stored status moves only Pending -> Processing -> Completed or
\* Failed, and a Completed or Failed document is never written again.
C3_Lifecycle ==
    [][\A id \in DocIds :
         documents[id] # None =>
            \/ documents'[id] = documents[id]
            \/ /\ documents[id].status = PENDING
               /\ documents'[id].status = PROCESSING
            \/ /\ documents[id].status = PROCESSING
               /\ documents'[id].status \in {COMPLETED, FAILED}]_vars

\* C4: error_message is set exactly when the stored status is Failed.
C4_ErrorIffFailed ==
    \A id \in DocIds :
        documents[id] # None =>
            (documents[id].error_message # None <=> documents[id].status = FAILED)

\* C5: no invocation of process_document ends with an exception.
C5_NeverRaises == \A w \in Runs : pc[w] # "raised"

\* C6: a document has at most one Timeline, a run that set Failed created
\* none, and a Failed document has none.
C6_TimelineOnlyOnSuccess ==
    /\ \A id \in DocIds :
         /\ Len(TimelinesOf(timelines, id)) <= 1
         /\ (documents[id] # None /\ documents[id].status = FAILED)
               => TimelinesOf(timelines, id) = <<>>
    /\ \A w \in Runs :
         (Entered(w) /\ doc[w].status = FAILED) => timeline[w] = None

\* C7: the timeline query hands out a persisted Timeline only while the
\* stored status of the document is Completed.
C7_TimelineOnlyWhenCompleted ==
    [][( /\ qpc = "find"
         /\ qpc' = "idle"
         /\ resp'.code = 200
         /\ resp'.persisted )
        => documents[resp'.document_id].status = COMPLETED]_vars

\* every character of the text is whitespace (the empty text included)
IsBlank(text) == \A k \in 1..Len(text) : IsSpace(text[k].c)

\* the run w is past its text extraction (an exception that leaves a run
\* which caught none is the one of the first save, before the extraction)
Extracted(w) ==
    /\ Entered(w)
    /\ pc[w] \notin {"save_processing", "extract_text"}
    /\ ~(pc[w] = "raised" /\ exc[w] = None)

\* text extraction failed for the run w: the file was missing, or the text
\* that was read is empty or whitespace-only
ExtractionFailed(w) ==
    /\ Extracted(w)
    /\ \/ exc[w] # None /\ exc[w].type = "FileNotFoundError"
       \/ IsBlank(uploads[doc[w].file_path]) /\ (exc[w] = None \/ exc[w].type # "PdfReadError")

\* the error_message that names the cause of a failed extraction
CauseMessage(w) ==
    IF exc[w] # None /\ exc[w].type = "FileNotFoundError"
    THEN Text("PDF file not found", 18)
    ELSE Text("No text extracted from PDF", 26)

StubRun(w) ==
    /\ Entered(w)
    /\ chunks[w] # <<>>
    /\ Len(all_event_lists[w]) = Len(chunks[w])
    /\ \A i \in 1..Len(chunks[w]) :
          all_event_lists[w][i] = <<Event(StubDate(i - 1), "stub", <<>>, "")>>

\* the events are in ascending order of their date strings
Ascending(events) ==
    \A i \in 1..Len(events), j \in 1..Len(events) :
        i < j => StrLeq(events[i].date, events[j].date)

\* C10 as stated, for a run whose writes all succeed: a run on any text of
\* 25,000 characters with the stub extractor ends Completed with a Timeline
\* of exactly 3 events in ascending date order.
C10_ThreeEvents ==
    \A w \in Runs :
        ( /\ StubRun(w)
          /\ TextLen(uploads[doc[w].file_path]) = 25000
          /\ pc[w] = "returned"
          /\ exc[w] = None )
           => /\ doc[w].status = COMPLETED
              /\ timeline[w] # None
              /\ Len(timeline[w].events) = 3
              /\ Ascending(timeline[w].events)

\* the text has no whitespace character
NoWhitespace(text) == \A k \in 1..Len(text) : ~IsSpace(text[k].c)

\* C10 amended: a text of 25,000 characters without whitespace is cut into
\* 3 chunks, and a run on it with the stub extractor whose Timeline and
\* status writes succeed ends Completed with a persisted Timeline of exactly
\* 3 events, one per chunk, in ascending date order.
C10_ThreeEventsPlainText ==
    \A w \in Runs :
        ( /\ Entered(w)
          /\ TextLen(uploads[doc[w].file_path]) = 25000
          /\ NoWhitespace(uploads[doc[w].file_path]) )
           => /\ (pc[w] \in {"extract_events", "insert", "save_completed"}
                     => Len(chunks[w]) = 3)
              /\ (StubRun(w) /\ pc[w] = "returned" /\ exc[w] = None)
                    => /\ doc[w].status = COMPLETED
                       /\ timeline[w] # None
                       /\ \E k \in 1..Len(timelines) : timelines[k] = timeline[w]
                       /\ Len(timeline[w].events) = 3
                       /\ \A i \in 1..3 : timeline[w].events[i].date = StubDate(i - 1)
                       /\ Ascending(timeline[w].events)

\* C10 witness: such a run returned and the document is Completed
C10_Witness ==
    \E w \in Runs :
        /\ StubRun(w)
        /\ uploads[doc[w].file_path] = TextPlain
        /\ pc[w] = "returned"
        /\ exc[w] = None
        /\ Len(timeline[w].events) = 3
        /\ documents[document_id[w]].status = COMPLETED

\* C11: the events of every persisted Timeline are in non-decreasing order
\* of their date strings, compared character by character, the "unknown"
\* sentinel and dates that are not zero-padded included.
C11_TimelinesSorted ==
    \A k \in 1..Len(timelines) : Ascending(timelines[k].events)

\* C11 witness: a persisted Timeline in which "2024-02-01" stands before
\* "2024-1-5" (string order, not calendar order) and "unknown" stands last
C11_Witness ==
    \E k \in 1..Len(timelines) :
        LET events == timelines[k].events
        IN  /\ Len(events) = 4
            /\ events[2].date = "2024-02-01"
            /\ events[3].date = "2024-1-5"
            /\ events[4].date = "unknown"

\* the merge function was called directly
MergeCalled == call # None /\ call.fn = "merge_and_sort_events"

\* the ways to place the n elements of an output: position i of the output
\* holds the element of position p[i] of the input
Placements(n) == { p \in [1..n -> 1..n] : \A i \in 1..n, j \in 1..n : i # j => p[i] # p[j] }

\* C12: merge_and_sort_events is stable: its output holds the events of the
\* concatenated input lists, each placed so that two events with equal date
\* strings stand in the output in the order they have in that concatenation.
C12_StableMerge ==
    MergeCalled =>
        LET cat == Flatten(call.all_events)
            out == call.result
        IN  /\ Len(out) = Len(cat)
            /\ \E p \in Placements(Len(cat)) :
                  /\ \A i \in 1..Len(out) : out[i] = cat[p[i]]
                  /\ \A i \in 1..Len(out), j \in 1..Len(out) :
                        (i < j /\ out[i].date = out[j].date) => p[i] < p[j]

\* C12 witness: a call whose input is not in date order and holds two events
\* of the same date in different lists, with the events of later positions
\* sorted in front of both
C12_Witness ==
    /\ MergeCalled
    /\ Len(call.result) = 4
    /\ call.all_events[1] # <<>> /\ call.all_events[3] # <<>>
    /\ [i \in 1..4 |-> call.result[i].description] = <<"e4", "e2", "e1", "e3">>
    /\ call.result[3].date = "unknown" /\ call.result[4].date = "unknown"

\* chunk_text was called directly
ChunkCalled == call # None /\ call.fn = "chunk_text"

RECURSIVE Reconstructs(_, _)
\* the text is the chunks in their order with nothing but whitespace (or
\* nothing at all) in front of, between and behind them; text and chunks
\* hold one run per character
Reconstructs(text, chunk_list) ==
    LET rest == lstrip(text)
    IN  IF chunk_list = <<>> THEN rest = <<>>
        ELSE LET c == Head(chunk_list)
             IN  /\ Len(c) <= Len(rest)
                 /\ SubSeq(rest, 1, Len(c)) = c
                 /\ Reconstructs(SubSeq(rest, Len(c) + 1, Len(rest)), Tail(chunk_list))

\* the slices start at 0, each starts where the one before ends, each holds
\* at least one character, and the last ends at or behind the end of the text
SlicesTile(text, cuts) ==
    IF text = <<>> THEN cuts = <<>>
    ELSE /\ cuts # <<>>
         /\ cuts[1].start = 0
         /\ \A k \in 1..Len(cuts) : cuts[k].start < cuts[k].end
         /\ \A k \in 1..(Len(cuts) - 1) :
               cuts[k + 1].start = cuts[k].end /\ cuts[k].end < TextLen(text)
         /\ cuts[Len(cuts)].end >= TextLen(text)

\* C13: for every text and every chunk_size > 0 the slices chunk_text cuts
\* are contiguous, do not overlap and cover the text; the returned chunks are
\* these slices trimmed, the empty ones left out, so the chunks in their
\* order, with only whitespace between them, give the text back; and no
\* returned chunk is empty.
C13_ChunksCoverText ==
    (ChunkCalled /\ call.chunk_size > 0) =>
        LET cuts == ChunkCuts(call.text, call.chunk_size, 0)
        IN  /\ SlicesTile(call.text, cuts)
            /\ call.passes = Len(cuts)
            /\ Reconstructs(call.text, call.result)
            /\ Len(call.result) <= Len(cuts)
            /\ \A i \in 1..Len(call.result) :
                  /\ call.result[i] # <<>>
                  /\ ~IsSpace(Head(call.result[i]).c)
                  /\ ~IsSpace(call.result[i][Len(call.result[i])].c)

\* C13 witness: a text of four characters cut with chunk_size 1 in three
\* slices, which give two chunks of one character: a whitespace-only slice
\* was dropped and a space was trimmed
C13_Witness ==
    /\ ChunkCalled
    /\ call.chunk_size = 1
    /\ TextLen(call.text) = 4
    /\ call.passes = 3
    /\ Len(call.result) = 2
    /\ \A i \in 1..2 : TextLen(call.result[i]) = 1

\* c is the text with its leading and trailing whitespace taken off
IsTrimOf(c, text) ==
    /\ c # <<>>
    /\ ~IsSpace(Head(c).c)
    /\ ~IsSpace(c[Len(c)].c)
    /\ Reconstructs(text, <<c>>)

\* C14 as stated: for every text shorter than chunk_size, chunk_text returns
\* exactly one chunk, the trimmed input.
C14_OneChunk ==
    (ChunkCalled /\ TextLen(call.text) < call.chunk_size)
        => /\ Len(call.result) = 1
           /\ call.result[1] = strip(call.text)

\* C14 amended: for every text shorter than chunk_size that holds a character
\* which is not whitespace, chunk_text returns exactly one chunk, the input
\* with its leading and trailing whitespace trimmed; for an empty or
\* whitespace-only text it returns no chunk.
C14_OneChunkUnlessBlank ==
    (ChunkCalled /\ TextLen(call.text) < call.chunk_size)
        => IF IsBlank(call.text)
           THEN call.result = <<>>
           ELSE /\ Len(call.result) = 1
                /\ IsTrimOf(call.result[1], call.text)
                /\ call.passes = 1

\* C14 witness: a text shorter than chunk_size with whitespace on both sides
\* gave one chunk, two characters shorter
C14_Witness ==
    /\ ChunkCalled
    /\ TextLen(call.text) >= 3
    /\ TextLen(call.text) < call.chunk_size
    /\ IsSpace(CharAt(call.text, 0))
    /\ IsSpace(CharAt(call.text, TextLen(call.text) - 1))
    /\ Len(call.result) = 1
    /\ TextLen(call.result[1]) = TextLen(call.text) - 2

\* the window [start, start + chunk_size) ends before the end of the text and
\* holds a whitespace character behind its first position
WindowHasWhitespace(text, chunk_size, start) ==
    /\ start + chunk_size < TextLen(text)
    /\ \E p \in (start + 1)..(start + chunk_size - 1) : IsSpace(CharAt(text, p))

\* the cut at position end falls inside a word: the characters on both of
\* its sides are not whitespace
SplitsWord(text, end) ==
    /\ 0 < end /\ end < TextLen(text)
    /\ ~IsSpace(CharAt(text, end - 1))
    /\ ~IsSpace(CharAt(text, end))

\* C15: in chunk_text, whenever a window ends before the end of the text and
\* holds a whitespace character behind its first position, the cut is made at
\* whitespace and splits no word.
C15_NoWordSplit ==
    (ChunkCalled /\ call.chunk_size > 0) =>
        LET cuts == ChunkCuts(call.text, call.chunk_size, 0)
        IN  \A k \in 1..Len(cuts) :
              WindowHasWhitespace(call.text, call.chunk_size, cuts[k].start)
                 => ~SplitsWord(call.text, cuts[k].end)

\* C16: chunk_text returns the empty sequence when the text is empty or
\* chunk_size is zero or negative, and the body of its loop never runs.
C16_EmptyOnGuard ==
    (ChunkCalled /\ (call.text = <<>> \/ call.chunk_size <= 0))
        => /\ call.result = <<>>
           /\ call.passes = 0

\* C16 witness: a call on a text of letters with a chunk_size that is not
\* positive returned no chunk
C16_Witness ==
    /\ ChunkCalled
    /\ call.chunk_size <= 0
    /\ TextLen(call.text) = 3
    /\ NoWhitespace(call.text)
    /\ call.result = <<>>

\* the run w has stored the status Processing (its save of line 47 succeeded)
HasSetProcessing(w) == Entered(w) /\ doc[w].saved.status # PENDING

\* C17: a run that has set a document to Processing sets it to Completed or
\* Failed before it ends: once the run is over (it takes no further step) the
\* stored status is Completed or Failed.
C17_NoRunLeavesProcessing ==
    \A w \in Runs :
        (HasSetProcessing(w) /\ Ended(w))
           => documents[document_id[w]].status \in {COMPLETED, FAILED}

\* C18: whenever the stored status of a document is Failed, its stored
\* error_message has at most 500 characters, however long the text of the
\* error was.
C18_ErrorMessageBounded ==
    \A id \in DocIds :
        (documents[id] # None /\ documents[id].status = FAILED)
           => \/ documents[id].error_message = None
              \/ documents[id].error_message.len <= 500

\* C18 witness: a run caught an error whose text has 600 characters, and
\* the document is Failed with the first 500 of them as error_message
C18_Witness ==
    \E w \in Runs :
        /\ pc[w] = "returned"
        /\ exc[w] # None
        /\ exc[w].msg.len = 600
        /\ documents[document_id[w]].status = FAILED
        /\ documents[document_id[w]].error_message = Text(exc[w].msg.base, 500)

\* the step is one in which the run w extracts text, chunks it or calls the
\* extractor
DoesWork(w) ==
    /\ pc[w] \in {"extract_text", "extract_events"}
    /\ \/ pc'[w] # pc[w]
       \/ chunks'[w] # chunks[w]
       \/ all_event_lists'[w] # all_event_lists[w]

\* C19: a run stores Processing before it starts work: at every step in
\* which a run extracts text, chunks it or calls the extractor, the run has
\* saved Processing and the stored status of its document is not Pending.
C19_ProcessingBeforeWork ==
    [][\A w \in Runs :
         DoesWork(w) => /\ HasSetProcessing(w)
                        /\ documents[document_id[w]].status # PENDING]_vars

\* C19 witness: a run is in the middle of its extractor calls, the stored
\* status of its document Processing
C19_Witness ==
    \E w \in Runs :
        /\ pc[w] = "extract_events"
        /\ all_event_lists[w] # <<>>
        /\ documents[document_id[w]].status = PROCESSING

\* C20: the Timeline is persisted before the status is set to Completed: in
\* every reachable state a document whose stored status is Completed has a
\* persisted Timeline.
C20_CompletedHasTimeline ==
    \A id \in DocIds :
        (documents[id] # None /\ documents[id].status = COMPLETED)
           => TimelinesOf(timelines, id) # <<>>

\* C20 witness: a run has just saved Completed; the Timeline it inserted one
\* step earlier is in the collection
C20_Witness ==
    \E w \in Runs :
        /\ pc[w] = "returned"
        /\ doc[w] # None
        /\ doc[w].saved.status = COMPLETED
        /\ documents[document_id[w]].status = COMPLETED
        /\ timeline[w] # None
        /\ \E k \in 1..Len(timelines) : timelines[k] = timeline[w]

\* what the extractor can return for the chunk of index i (from 0) of run w
ExtractorResults(w, i) ==
    { extract_events_from_chunk(chunks[w][i + 1], groq_api_key, backend) :
        backend \in BackendOutcomes(i) }

\* C21: within one run the extractor is called once per chunk, in the order
\* of the chunks, one call per step: a call step adds exactly one list, the
\* result for the next chunk, behind the lists of the chunks before it, which
\* it leaves as they are; the merge is made once there is one list per chunk,
\* from the lists in chunk order, each as the extractor returned it.
C21_OneCallPerChunkInOrder ==
    /\ [](\A w \in Runs :
            /\ Len(all_event_lists[w]) <= Len(chunks[w])
            /\ \A i \in 1..Len(all_event_lists[w]) :
                  all_event_lists[w][i] \in ExtractorResults(w, i - 1)
            /\ (pc[w] = "extract_events") = (Len(all_event_lists[w]) < Len(chunks[w]))
            /\ timeline[w] # None
                  => /\ Len(all_event_lists[w]) = Len(chunks[w])
                     /\ timeline[w].events = SortByDate(<<>>, Flatten(all_event_lists[w])))
    /\ [][\A w \in Runs :
            all_event_lists'[w] # all_event_lists[w]
               => /\ pc[w] = "extract_events"
                  /\ Len(all_event_lists'[w]) = Len(all_event_lists[w]) + 1
                  /\ SubSeq(all_event_lists'[w], 1, Len(all_event_lists[w]))
                        = all_event_lists[w]
                  /\ chunks'[w] = chunks[w]]_vars

\* C21 witness: a run over four chunks made its four calls and merged: the
\* i-th list holds the stub event of the i-th chunk
C21_Witness ==
    \E w \in Runs :
        /\ StubRun(w)
        /\ Len(chunks[w]) = 4
        /\ timeline[w] # None
        /\ [i \in 1..4 |-> timeline[w].events[i].date] = [i \in 1..4 |-> StubDate(i - 1)]

\* how many times the event e occurs in the list seq
Count(seq, e) == Cardinality({ i \in 1..Len(seq) : seq[i] = e })

\* C22: merge_and_sort_events returns a permutation of the concatenation of
\* its input lists: every event occurs in the output, unchanged, as many
\* times as in the input lists together, and the output is as long as the
\* input lists together.
C22_MergeIsPermutation ==
    MergeCalled =>
        LET cat == Flatten(call.all_events)
            out == call.result
            lens == [c \in 1..3 |-> Len(call.all_events[c])]
        IN  /\ Len(out) = lens[1] + lens[2] + lens[3]
            /\ \A i \in 1..Len(out) : Count(cat, out[i]) = Count(out, out[i])
            /\ \A c \in 1..3 : \A i \in 1..lens[c] :
                  Count(out, call.all_events[c][i]) = Count(cat, call.all_events[c][i])

\* C22 witness: a call on lists that hold the same event three times, in two
\* lists, returned it three times
C22_Witness ==
    /\ MergeCalled
    /\ Len(call.result) = 4
    /\ call.all_events[1] # <<>> /\ call.all_events[2] # <<>>
    /\ Count(call.result, Event("2024-1-5", "same", <<>>, "")) = 3
    /\ call.result[4].date = "unknown"

\* _parse_events_from_response was called directly
ParseCalled == call # None /\ call.fn = "_parse_events_from_response"

\* the JSON values Python takes as false
Falsy == {JNull, JStr(""), JNum(0), JBool(FALSE), JList(<<>>), JDict(<<>>)}

\* the key is missing from the object, or its value counts as false
NotGiven(obj, key) == key \notin DOMAIN obj \/ obj[key] \in Falsy

\* the event ev is what the contract asks for the object obj of the array
WellFormedFor(ev, obj) ==
    /\ ev.date # ""
    /\ NotGiven(obj, "date") => ev.date = "unknown"
    /\ (~NotGiven(obj, "date") /\ obj.date.t = "str") => ev.date = obj.date.v
    /\ NotGiven(obj, "description") => ev.description = ""
    /\ (~NotGiven(obj, "description") /\ obj.description.t = "str")
          => ev.description = obj.description.v
    /\ (~NotGiven(obj, "description") /\ obj.description.t = "num")
          => ev.description = "7"
    /\ NotGiven(obj, "significance") => ev.significance = ""
    /\ (~NotGiven(obj, "significance") /\ obj.significance.t = "str")
          => ev.significance = obj.significance.v
    /\ IF "involved_parties" \in DOMAIN obj /\ obj.involved_parties.t = "list"
       THEN /\ Len(ev.involved_parties) = Len(obj.involved_parties.v)
            /\ \A i \in 1..Len(ev.involved_parties) :
                  ev.involved_parties[i] \in {"p", "7", "None"}
       ELSE ev.involved_parties = <<>>

\* C23: no malformed entry of the backend's output becomes an Event: a
\* response that is no JSON array gives no events; of an array, the entries
\* that are objects give one Event each, in order, the others are left out;
\* every Event has a non-empty date ("unknown" when the object has none or an
\* empty one), the description and significance as strings ("" when
\* missing) and involved_parties as a list of strings (empty when missing or
\* no list).
C23_ParsedEventsWellFormed ==
    ParseCalled =>
        LET data == call.raw.json
            out == call.result
        IN  IF call.raw.fence = "json_unclosed" \/ data.t # "list"
            THEN out = <<>>
            ELSE LET objs == SelectSeq(data.v, LAMBDA e : e.t = "dict")
                 IN  /\ Len(out) = Len(objs)
                     /\ \A i \in 1..Len(out) : WellFormedFor(out[i], objs[i].v)

\* C23 witness: an array with entries that are no objects around an object
\* without date and with involved_parties that is no list gave one Event,
\* dated "unknown" and without parties
C23_Witness ==
    /\ ParseCalled
    /\ call.raw.json.t = "list"
    /\ Len(call.raw.json.v) = 4
    /\ "date" \notin DOMAIN call.raw.json.v[2].v
    /\ "involved_parties" \in DOMAIN call.raw.json.v[2].v
    /\ call.raw.json.v[2].v.involved_parties = JStr("p")
    /\ Len(call.result) = 1
    /\ call.result[1].date = "unknown"
    /\ call.result[1].involved_parties = <<>>

\* C24: an invocation for an id that names no Document returns at once: the
\* step that looks the document up creates and changes no Document and no
\* Timeline, loads nothing, runs no extraction and ends the run, which never
\* takes another step.
C24_MissingIsNoOp ==
    [][\A w \in Runs :
         /\ ( /\ pc[w] = "get"
              /\ pc'[w] # "get"
              /\ documents[document_id[w]] = None )
            => ( /\ pc'[w] = "returned"
                 /\ documents' = documents
                 /\ timelines' = timelines
                 /\ <<doc'[w], chunks'[w], all_event_lists'[w], timeline'[w]>>
                       = <<None, <<>>, <<>>, None>> )
         /\ (pc[w] = "returned" /\ ~Entered(w))
               => (pc'[w] = "returned" /\ ~Entered(w)')]_vars

\* C24 witness: an invocation made before any upload has returned; there is
\* still no Document and no Timeline
C24_Witness ==
    \E w \in Runs :
        /\ pc[w] = "returned"
        /\ documents[document_id[w]] = None
        /\ ~Entered(w)
        /\ timelines = <<>>

\* one of the two queries was called directly
QueryCalled ==
    call # None /\ call.fn \in {"get_document_status", "get_document_timeline"}

\* C25: to a requester who is not the owner of the document, the status
\* query and the timeline query answer as they do when there is no document:
\* 404 "Document not found", whatever the status, the error_message and the
\* Timeline of the document are.
C25_NonOwnerSeesNotFound ==
    (QueryCalled /\ (call.stored = None \/ call.stored.user_id # call.current_user))
        => call.response = [code |-> 404, detail |-> "Document not found"]

\* C25 witness: a user asked for the timeline of another user's Completed
\* document, which has a Timeline with an event, and got the 404
C25_Witness ==
    /\ call # None
    /\ call.fn = "get_document_timeline"
    /\ call.stored # None
    /\ call.stored.user_id = "alice" /\ call.current_user = "bob"
    /\ call.stored.status = COMPLETED
    /\ call.found # <<>> /\ call.found[1].events # <<>>
    /\ call.response.code = 404

\* C26: for every text and every chunk_size > 0, every chunk chunk_text
\* returns has at most chunk_size characters: a slice has at most
\* chunk_size + 1 characters, and when it has chunk_size + 1 its last
\* character is a space, which the trimming takes off.
C26_ChunkSizeBound ==
    (ChunkCalled /\ call.chunk_size > 0) =>
        LET cuts == ChunkCuts(call.text, call.chunk_size, 0)
        IN  /\ \A i \in 1..Len(call.result) : TextLen(call.result[i]) <= call.chunk_size
            /\ \A k \in 1..Len(cuts) :
                  /\ cuts[k].end - cuts[k].start <= call.chunk_size + 1
                  /\ cuts[k].end - cuts[k].start = call.chunk_size + 1
                        => /\ cuts[k].end <= TextLen(call.text)
                           /\ CharAt(call.text, cuts[k].end - 1) = " "
                           /\ TextLen(strip(Slice(call.text, cuts[k].start, cuts[k].end)))
                                 <= call.chunk_size

\* C26 witness: the first slice of a call has chunk_size + 1 characters and
\* the first chunk has chunk_size characters
C26_Witness ==
    /\ ChunkCalled
    /\ call.chunk_size >= 2
    /\ call.passes >= 2
    /\ CutEnd(call.text, call.chunk_size, 0) = call.chunk_size + 1
    /\ call.result # <<>>
    /\ TextLen(call.result[1]) = call.chunk_size

\* chunk_text is running, or has run, pass by pass with a positive chunk_size
LoopCalled == call # None /\ call.fn = "chunk_text (loop)" /\ call.chunk_size > 0

\* that call has returned
LoopReturned == LoopCalled /\ call.at = "returned"

\* C27: chunk_text terminates for every text and every chunk_size > 0: every
\* pass of the loop moves start forward, the loop makes at most len(text)
\* passes, and every call returns (with the chunks chunk_text gives).
C27_ChunkTextTerminates ==
    /\ [][(LoopCalled /\ call'.passes # call.passes)
            => /\ call'.start > call.start
               /\ call'.passes = call.passes + 1
               /\ call'.passes <= TextLen(call.text)]_vars
    /\ [](LoopReturned => call.result = chunk_text(call.text, call.chunk_size))
    /\ [](LoopCalled => <>LoopReturned)

\* C27 witness: a call on a text of four letters with chunk_size 1 returned
\* after four passes, as many as the text has characters
C27_Witness ==
    /\ LoopReturned
    /\ call.chunk_size = 1
    /\ TextLen(call.text) = 4
    /\ call.passes = 4
    /\ Len(call.result) = 4

\* C28: extract_events_from_chunk never returns an empty list: without an
\* API key, when the backend call raises, and when the response parses to no
\* event, it returns the single mock event; so every list a run collected is
\* non-empty, and every persisted Timeline holds at least one event per chunk
\* and is never empty.
C28_NeverEmpty ==
    /\ \A w \in Runs :
          /\ \A i \in 1..Len(chunks[w]) : \A backend \in BackendOutcomes(i - 1) :
                LET events == extract_events_from_chunk(chunks[w][i], groq_api_key, backend)
                IN  /\ events # <<>>
                    /\ (NoApiKey(groq_api_key) \/ BackendUnusable(backend))
                          => events = _mock_events(chunks[w][i])
          /\ \A i \in 1..Len(all_event_lists[w]) :
                /\ all_event_lists[w][i] # <<>>
                /\ NoApiKey(groq_api_key)
                      => all_event_lists[w][i] = _mock_events(chunks[w][i])
          /\ timeline[w] # None
                => /\ Len(chunks[w]) >= 1
                   /\ Len(timeline[w].events) >= Len(chunks[w])
    /\ \A k \in 1..Len(timelines) : timelines[k].events # <<>>

\* C28 witness: with an API key set, every backend call of a run over four
\* chunks failed, and the Timeline persisted holds the mock event four times
C28_Witness ==
    \E w \in Runs :
        /\ ~NoApiKey(groq_api_key)
        /\ backend_failed[w]
        /\ Len(chunks[w]) = 4
        /\ timeline[w] # None
        /\ timeline[w].events = [i \in 1..4 |-> _mock_events(<<>>)[1]]
        /\ \E k \in 1..Len(timelines) : timelines[k] = timeline[w]

====
